---- MODULE Spec2Model ----
(***************************************************************************)
(* Model of api/index.js, the Catbox uploader worker: a router (fetch) and *)
(* five handlers.  One inbound request is followed from the router to its  *)
(* response; every await of a handler is a step of the model, and every    *)
(* outbound fetch() is logged in calls.  Handlers share no state, so one   *)
(* request at a time shows everything a request can do.                    *)
(***************************************************************************)
EXTENDS Integers, Sequences, FiniteSets, TLC

VARIABLES
    request,    \* the inbound request: method, path, body
    pc,         \* the await the request's handler is suspended at
    handler,    \* the handler the router dispatched to
    local,      \* the handler's local constants (file, time, url, ...)
    calls,      \* outbound fetch() calls issued for the request, in order
    upstream,   \* the Response object the last outbound fetch resolved to
    response    \* the Response returned to the caller

vars == <<request, pc, handler, local, calls, upstream, response>>

----------------------------------------------------------------------------
(* JavaScript values: a type tag, the text String(value) gives, and the     *)
(* size of a File or Blob.                                                  *)

Undefined == [type |-> "undefined", v |-> "undefined", size |-> 0]
Null == [type |-> "null", v |-> "null", size |-> 0]
Str(s) == [type |-> "string", v |-> s, size |-> 0]
Num(s) == [type |-> "number", v |-> s, size |-> 0]
Bool(s) == [type |-> "boolean", v |-> s, size |-> 0]
File(name, size) == [type |-> "file", v |-> name, size |-> size]

\* ToBoolean, as used by !x, x || y and if (x).
Truthy(x) ==
    CASE x.type = "undefined" -> FALSE
      [] x.type = "null" -> FALSE
      [] x.type = "string" -> x.v # ""
      [] x.type = "number" -> x.v \notin {"0", "NaN"}
      [] x.type = "boolean" -> x.v = "true"
      [] OTHER -> TRUE

\* a || b
OrElse(a, b) == IF Truthy(a) THEN a ELSE b

\* const { k = d } = body: the default applies to undefined only.
Default(a, d) == IF a = Undefined THEN d ELSE a

----------------------------------------------------------------------------
(* Texts whose characters matter (upstream response bodies) are sequences   *)
(* of one-character strings.                                                *)

HttpsPrefix == <<"h", "t", "t", "p", "s", ":", "/", "/">>

\* A test for the prefix anywhere in the text (includes) instead of at its
\* start.
startsWithAnywhere(s, p) ==
    \E i \in 1..(Len(s) + 1) :
        i + Len(p) - 1 <= Len(s) /\ SubSeq(s, i, i + Len(p) - 1) = p

\* String.prototype.startsWith
startsWith(s, p) == Len(s) >= Len(p) /\ SubSeq(s, 1, Len(p)) = p

WhiteSpace == {" ", "\n", "\t", "\r"}

RECURSIVE trimStart(_)
trimStart(s) ==
    IF s # <<>> /\ Head(s) \in WhiteSpace THEN trimStart(Tail(s)) ELSE s

RECURSIVE trimEnd(_)
trimEnd(s) ==
    IF s # <<>> /\ s[Len(s)] \in WhiteSpace
    THEN trimEnd(SubSeq(s, 1, Len(s) - 1)) ELSE s

\* String.prototype.trim
trim(s) == trimEnd(trimStart(s))

----------------------------------------------------------------------------
(* Sizes.                                                                   *)

MaxSizeMB == 200
BytesPerMB == 1024 * 1024

\* The size test on whole mebibytes (the quotient rounded down).
FileTooLargeFloor(f) ==
    f.type = "file" /\ f.size \div BytesPerMB > MaxSizeMB

\* fileSizeMB > 200, where fileSizeMB = size / (1024 * 1024).  The division
\* is by a power of two and exact, so the test is size > 200 * 2^20.  A
\* form field that is a string has no size: undefined / 2^20 is NaN and
\* NaN > 200 is false.
FileTooLarge(f) == f.type = "file" /\ f.size > MaxSizeMB * BytesPerMB

\* fileSizeMB.toFixed(2) in hundredths of a MiB: the nearest hundredth,
\* the larger one on a tie.  NaN.toFixed(2) is "NaN".
toFixed2(f) ==
    IF f.type # "file" THEN Num("NaN")
    ELSE [type |-> "number", v |-> "hundredths",
          size |-> (f.size \div BytesPerMB) * 100
                   + ((f.size % BytesPerMB) * 100 + BytesPerMB \div 2)
                     \div BytesPerMB]

----------------------------------------------------------------------------
(* The router's headers and the two upstream endpoints.                     *)

\* The headers without the content type.
corsHeadersNoContentType ==
    [ACAO |-> "*", ACAM |-> "GET, POST, OPTIONS", ACAH |-> "Content-Type"]

corsHeaders ==
    [ACAO |-> "*", ACAM |-> "GET, POST, OPTIONS", ACAH |-> "Content-Type",
     ContentType |-> "application/json"]

Catbox == "https://catbox.moe/user/api.php"
Litterbox == "https://litterbox.catbox.moe/resources/internals/api.php"

validTimes == {"1h", "12h", "24h", "72h"}

\* A time test that accepts every string.
includesTimeAnyString(t) == t.type = "string"

\* validTimes.includes(time): strict equality with one of the four strings.
includesTime(t) == t.type = "string" /\ t.v \in validTimes

\* response.ok
ok(status) == status >= 200 /\ status <= 299

\* new Response(body, { status, headers }); the status defaults to 200.
\* body is null or the object given to JSON.stringify.
Response(status, headers, body) ==
    [status |-> status, headers |-> headers, body |-> body]

NoResponse == [status |-> 0, headers |-> [none |-> ""], body |-> Null]
NoUpstream == [status |-> 0, text |-> <<>>, read |-> "none"]
NoLocal ==
    [file |-> Undefined, time |-> Undefined, url |-> Undefined,
     temporary |-> Undefined, filename |-> Undefined]

----------------------------------------------------------------------------
(* The inputs: what a caller can send and what the network can answer.      *)

SizeSlack == 1
Limit == MaxSizeMB * BytesPerMB

FileSizes ==
    {0, 5 * BytesPerMB, 2 * Limit} \cup ((Limit - SizeSlack)..(Limit + SizeSlack))

Methods == {"GET", "POST", "OPTIONS", "PUT"}
Paths == {"/", "/health", "/upload", "/upload/temp", "/upload/url", "/nope"}

\* formData.get('file'): null when the field is absent, a string for a text
\* part, a File for a file part.
FileFields ==
    {Null, Str(""), Str("text")} \cup {File("a.png", n) : n \in FileSizes}

\* formData.get('time')
TimeFields ==
    {Null, Str(""), Str("5h"), File("t.txt", 1)} \cup {Str(t) : t \in validTimes}

\* The members url, temporary and time of the parsed JSON body; Undefined
\* when the member is absent.
UrlMembers ==
    {Undefined, Null, Str(""), Str("not a url"), Num("5"),
     Str("https://h/a.png"), Str("https://h/d/"), Str("ftp://h/f")}
TemporaryMembers ==
    {Undefined, Null, Bool("true"), Bool("false"), Str("false"), Num("0")}
TimeMembers == {Undefined, Null, Str("1h"), Str("72h"), Str("5h"), Num("12")}

\* Request bodies: a multipart form, a JSON object, the JSON text null, and
\* a body that is neither multipart nor JSON.
Bodies ==
    [kind : {"form"}, file : FileFields, time : TimeFields,
     url : {Undefined}, temporary : {Undefined}]
    \cup [kind : {"json"}, file : {Undefined}, time : TimeMembers,
          url : UrlMembers, temporary : TemporaryMembers]
    \cup [kind : {"jsonnull", "text"}, file : {Undefined}, time : {Undefined},
          url : {Undefined}, temporary : {Undefined}]

Requests == [method : Methods, path : Paths, body : Bodies]

\* Statuses and body texts an outbound call can be answered with.
Statuses == {200, 204, 299, 300, 404, 500}

UpstreamTexts ==
    {HttpsPrefix \o <<"c", "/", "x">>,
     HttpsPrefix \o <<"c", "/", "x", "\n">>,
     <<" ">> \o HttpsPrefix \o <<"c", "/", "x">>,
     HttpsPrefix,
     <<"h", "t", "t", "p", ":", "/", "/", "c">>,
     <<"H", "T", "T", "P", "S", ":", "/", "/", "c">>,
     <<"N", "o", " ", "f", "i", "l", "e">>,
     <<>>}

----------------------------------------------------------------------------
(* new URL(s): whether s parses, its protocol, and its pathname already     *)
(* split at "/" (what urlPath.split('/') returns).                          *)

URL(s) ==
    CASE s = "https://h/a.png" ->
           [valid |-> TRUE, protocol |-> "https:", path |-> <<"", "a.png">>]
      [] s = "https://h/d/" ->
           [valid |-> TRUE, protocol |-> "https:", path |-> <<"", "d", "">>]
      [] s = "ftp://h/f" ->
           [valid |-> TRUE, protocol |-> "ftp:", path |-> <<"", "f">>]
      [] OTHER -> [valid |-> FALSE, protocol |-> "", path |-> <<"">>]

\* A URL test that accepts everything.
parsesAnything(url) == TRUE

\* try { new URL(url) } catch { ... }: the argument is converted to a string.
parses(url) == URL(url.v).valid

\* urlPath.split('/').pop() || 'download'
filenameOf(url) ==
    LET parts == URL(url.v).path IN OrElse(Str(parts[Len(parts)]), Str("download"))

\* The runtime's fetch() speaks http and https only; any other scheme rejects.
fetchable(url) == URL(url.v).protocol \in {"http:", "https:"}

\* An endpoint choice that ignores the flag.
uploadUrlPermanent(temporary) == Catbox

\* temporary ? litterbox : catbox
uploadUrl(temporary) == IF Truthy(temporary) THEN Litterbox ELSE Catbox

----------------------------------------------------------------------------
(* Outbound calls.  state: "pending" until the fetch settles, "responded"   *)
(* once it resolved to a Response, "read" once the body was read, "failed"  *)
(* when the fetch or the read rejected.                                     *)

SourceCall(url) ==
    [op |-> "source", url |-> url.v, time |-> Undefined, file |-> Undefined,
     state |-> "pending"]

\* fetch(uploadUrl, { method: 'POST', body: uploadFormData }); time is the
\* form's time field (appended values become strings), Undefined without one.
UploadCall(target, time, file) ==
    [op |-> "upload", url |-> target,
     time |-> IF time = Undefined THEN Undefined ELSE Str(time.v),
     file |-> file, state |-> "pending"]

SetLast(cs, st) == [cs EXCEPT ![Len(cs)].state = st]

\* A JSON member: JSON.stringify leaves out members whose value is undefined.
Member(k, val) == IF val = Undefined THEN <<>> ELSE k :> val

----------------------------------------------------------------------------
(* Responses.                                                               *)

handleRoot(headers) ==
    Response(200, headers,
        [message |-> "Catbox Uploader API - Cloudflare Workers Edition",
         endpoints |-> {"/upload", "/upload/temp", "/upload/url", "/health"},
         limits |-> [max_file_size |-> "200MB", allowed_methods |-> {"POST"},
                     temp_durations |-> validTimes]])

handleHealth(headers) ==
    Response(200, headers,
        [status |-> "ok", service |-> "catbox-uploader-worker",
         timestamp |-> "now"])

NotFound(headers) == Response(404, headers, [error |-> "Not found"])

MethodNotAllowed(headers) ==
    Response(405, headers, [error |-> "Method not allowed"])

NoFileProvided(headers) == Response(400, headers, [error |-> "No file provided"])

InvalidTime(headers, time) ==
    Response(400, headers,
        [error |-> "Invalid time parameter", valid_times |-> validTimes,
         provided |-> time])

FileTooLargeResponse(headers, file) ==
    Response(413, headers,
        [error |-> "File too large", max_size |-> "200MB",
         file_size |-> toFixed2(file)])

\* The catch block of a handler.
UploadFailed(headers, message) ==
    Response(500, headers,
        [success |-> FALSE, error |-> "Upload failed", message |-> message])

\* The handler returns r.
Return(r) ==
    /\ response' = r
    /\ pc' = "done"

\* The handler suspends at the await named l.
Await(l) ==
    /\ pc' = l
    /\ UNCHANGED response

----------------------------------------------------------------------------
Init ==
    /\ request \in Requests
    /\ pc = "idle"
    /\ handler = "none"
    /\ local = NoLocal
    /\ calls = <<>>
    /\ upstream = NoUpstream
    /\ response = NoResponse

\* A router without the preflight test.
isPreflightNever(method) == FALSE

\* The preflight test of the router.
isPreflight(method) == method = "OPTIONS"

\* The router, up to the first await of the handler it dispatches to.
fetch ==
    /\ pc = "idle"
    /\ UNCHANGED <<request, local, calls, upstream>>
    /\ IF isPreflight(request.method)
       THEN /\ handler' = "none"
            /\ Return(Response(200, corsHeaders, Null))
       ELSE CASE request.path = "/" ->
                   /\ handler' = "handleRoot"
                   /\ Return(handleRoot(corsHeaders))
              [] request.path = "/health" ->
                   /\ handler' = "handleHealth"
                   /\ Return(handleHealth(corsHeaders))
              [] request.path = "/upload" ->
                   /\ handler' = "handleUpload"
                   /\ IF request.method # "POST"
                      THEN Return(MethodNotAllowed(corsHeaders))
                      ELSE Await("formData")
              [] request.path = "/upload/temp" ->
                   /\ handler' = "handleUploadTemp"
                   /\ IF request.method # "POST"
                      THEN Return(MethodNotAllowed(corsHeaders))
                      ELSE Await("formData")
              [] request.path = "/upload/url" ->
                   /\ handler' = "handleUploadFromUrl"
                   /\ IF request.method # "POST"
                      THEN Return(MethodNotAllowed(corsHeaders))
                      ELSE Await("json")
              [] OTHER ->
                   /\ handler' = "none"
                   /\ Return(NotFound(corsHeaders))

----------------------------------------------------------------------------
(* handleUpload: POST /upload.                                              *)

\* await request.formData() settles; the handler runs to fetch(catbox).
handleUpload_formData ==
    /\ pc = "formData" /\ handler = "handleUpload"
    /\ UNCHANGED <<request, handler, upstream>>
    /\ IF request.body.kind # "form"
       THEN /\ Return(UploadFailed(corsHeaders, "formData() rejected"))
            /\ UNCHANGED <<local, calls>>
       ELSE LET file == request.body.file IN
            /\ local' = [local EXCEPT !.file = file]
            /\ IF ~Truthy(file)
               THEN /\ Return(NoFileProvided(corsHeaders))
                    /\ UNCHANGED calls
               ELSE IF FileTooLarge(file)
               THEN /\ Return(FileTooLargeResponse(corsHeaders, file))
                    /\ UNCHANGED calls
               ELSE /\ calls' = Append(calls, UploadCall(Catbox, Undefined, file))
                    /\ Await("upload")

\* await fetch(catbox) settles.
handleUpload_fetch ==
    /\ pc = "upload" /\ handler = "handleUpload"
    /\ UNCHANGED <<request, handler, local>>
    /\ \/ /\ calls' = SetLast(calls, "failed")
          /\ UNCHANGED upstream
          /\ Return(UploadFailed(corsHeaders, "fetch() rejected"))
       \/ \E s \in Statuses, t \in UpstreamTexts :
            /\ calls' = SetLast(calls, "responded")
            /\ upstream' = [status |-> s, text |-> t, read |-> "none"]
            /\ IF ~ok(s)
               THEN Return(UploadFailed(corsHeaders,
                                        <<"Upload failed with status", s>>))
               ELSE Await("text")

\* await response.text() settles; the handler maps the result.
handleUpload_text ==
    /\ pc = "text" /\ handler = "handleUpload"
    /\ UNCHANGED <<request, handler, local>>
    /\ \/ /\ calls' = SetLast(calls, "failed")
          /\ upstream' = [upstream EXCEPT !.read = "failed"]
          /\ Return(UploadFailed(corsHeaders, "text() rejected"))
       \/ LET result == upstream.text IN
          /\ calls' = SetLast(calls, "read")
          /\ upstream' = [upstream EXCEPT !.read = "read"]
          /\ IF startsWith(result, HttpsPrefix)
             THEN Return(Response(200, corsHeaders,
                      [success |-> TRUE, url |-> trim(result),
                       size_mb |-> toFixed2(local.file)]
                      @@ Member("filename",
                                IF local.file.type = "file"
                                THEN Str(local.file.v) ELSE Undefined)))
             ELSE Return(UploadFailed(corsHeaders,
                                      "Invalid response from catbox"))

----------------------------------------------------------------------------
(* handleUploadTemp: POST /upload/temp.                                     *)

\* await request.formData() settles; the handler runs to fetch(litterbox).
handleUploadTemp_formData ==
    /\ pc = "formData" /\ handler = "handleUploadTemp"
    /\ UNCHANGED <<request, handler, upstream>>
    /\ IF request.body.kind # "form"
       THEN /\ Return(UploadFailed(corsHeaders, "formData() rejected"))
            /\ UNCHANGED <<local, calls>>
       ELSE LET file == request.body.file
                time == OrElse(request.body.time, Str("1h")) IN
            /\ local' = [local EXCEPT !.file = file, !.time = time]
            /\ IF ~Truthy(file)
               THEN /\ Return(NoFileProvided(corsHeaders))
                    /\ UNCHANGED calls
               ELSE IF ~includesTime(time)
               THEN /\ Return(InvalidTime(corsHeaders, time))
                    /\ UNCHANGED calls
               ELSE IF FileTooLarge(file)
               THEN /\ Return(FileTooLargeResponse(corsHeaders, file))
                    /\ UNCHANGED calls
               ELSE /\ calls' = Append(calls, UploadCall(Litterbox, time, file))
                    /\ Await("upload")

\* await fetch(litterbox) settles.
handleUploadTemp_fetch ==
    /\ pc = "upload" /\ handler = "handleUploadTemp"
    /\ UNCHANGED <<request, handler, local>>
    /\ \/ /\ calls' = SetLast(calls, "failed")
          /\ UNCHANGED upstream
          /\ Return(UploadFailed(corsHeaders, "fetch() rejected"))
       \/ \E s \in Statuses, t \in UpstreamTexts :
            /\ calls' = SetLast(calls, "responded")
            /\ upstream' = [status |-> s, text |-> t, read |-> "none"]
            /\ IF ~ok(s)
               THEN Return(UploadFailed(corsHeaders,
                                        <<"Upload failed with status", s>>))
               ELSE Await("text")

\* await response.text() settles; the handler maps the result.
handleUploadTemp_text ==
    /\ pc = "text" /\ handler = "handleUploadTemp"
    /\ UNCHANGED <<request, handler, local>>
    /\ \/ /\ calls' = SetLast(calls, "failed")
          /\ upstream' = [upstream EXCEPT !.read = "failed"]
          /\ Return(UploadFailed(corsHeaders, "text() rejected"))
       \/ LET result == upstream.text IN
          /\ calls' = SetLast(calls, "read")
          /\ upstream' = [upstream EXCEPT !.read = "read"]
          /\ IF startsWith(result, HttpsPrefix)
             THEN Return(Response(200, corsHeaders,
                      [success |-> TRUE, url |-> trim(result),
                       size_mb |-> toFixed2(local.file),
                       expiration |-> local.time, temporary |-> TRUE]
                      @@ Member("filename",
                                IF local.file.type = "file"
                                THEN Str(local.file.v) ELSE Undefined)))
             ELSE Return(UploadFailed(corsHeaders,
                                      "Invalid response from litterbox"))

----------------------------------------------------------------------------
(* handleUploadFromUrl: POST /upload/url.                                   *)

\* await request.json() settles; the handler runs to fetch(url).
handleUploadFromUrl_json ==
    /\ pc = "json" /\ handler = "handleUploadFromUrl"
    /\ UNCHANGED <<request, handler, upstream>>
    /\ IF request.body.kind # "json"
       THEN /\ Return(UploadFailed(corsHeaders, "json() rejected"))
            /\ UNCHANGED <<local, calls>>
       ELSE LET url == request.body.url
                temporary == Default(request.body.temporary, Bool("false"))
                time == Default(request.body.time, Str("1h")) IN
            /\ local' = [local EXCEPT !.url = url, !.temporary = temporary,
                                      !.time = time]
            /\ IF ~Truthy(url)
               THEN /\ Return(Response(400, corsHeaders,
                                       [error |-> "No URL provided"]))
                    /\ UNCHANGED calls
               ELSE IF ~parses(url)
               THEN /\ Return(Response(400, corsHeaders,
                                       [error |-> "Invalid URL"]))
                    /\ UNCHANGED calls
               ELSE /\ calls' = Append(calls, SourceCall(url))
                    /\ Await("source")

\* A source step that starts the upload as soon as the source responded,
\* while its body is still being read.
handleUploadFromUrl_sourceEager ==
    /\ pc = "source" /\ handler = "handleUploadFromUrl"
    /\ fetchable(local.url)
    /\ UNCHANGED <<request, handler, local>>
    /\ \E s \in Statuses :
         /\ upstream' = [status |-> s, text |-> <<>>, read |-> "none"]
         /\ calls' = Append(SetLast(calls, "responded"),
                            UploadCall(uploadUrl(local.temporary), Undefined,
                                       File("download", 0)))
         /\ Await("upload")

\* await fetch(url) settles.
handleUploadFromUrl_source ==
    /\ pc = "source" /\ handler = "handleUploadFromUrl"
    /\ UNCHANGED <<request, handler, local>>
    /\ \/ /\ calls' = SetLast(calls, "failed")
          /\ UNCHANGED upstream
          /\ Return(UploadFailed(corsHeaders, "fetch() rejected"))
       \/ /\ fetchable(local.url)
          /\ \E s \in Statuses :
               /\ calls' = SetLast(calls, "responded")
               /\ upstream' = [status |-> s, text |-> <<>>, read |-> "none"]
               /\ IF ~ok(s)
                  THEN Return(Response(400, corsHeaders,
                                  [error |-> "Failed to download file",
                                   status |-> s]))
                  ELSE Await("blob")

\* await fileResponse.blob() settles; the handler runs to fetch(uploadUrl).
handleUploadFromUrl_blob ==
    /\ pc = "blob" /\ handler = "handleUploadFromUrl"
    /\ UNCHANGED <<request, handler>>
    /\ \/ /\ calls' = SetLast(calls, "failed")
          /\ upstream' = [upstream EXCEPT !.read = "failed"]
          /\ UNCHANGED local
          /\ Return(UploadFailed(corsHeaders, "blob() rejected"))
       \/ \E n \in FileSizes :
            LET filename == filenameOf(local.url)
                file == File(filename.v, n) IN
            /\ upstream' = [upstream EXCEPT !.read = "read"]
            /\ local' = [local EXCEPT !.file = file, !.filename = filename]
            /\ IF FileTooLarge(file)
               THEN /\ calls' = SetLast(calls, "read")
                    /\ Return(FileTooLargeResponse(corsHeaders, file))
               ELSE /\ calls' = Append(SetLast(calls, "read"),
                           UploadCall(uploadUrl(local.temporary),
                                      IF Truthy(local.temporary)
                                      THEN local.time ELSE Undefined,
                                      file))
                    /\ Await("upload")

\* await fetch(uploadUrl) settles.
handleUploadFromUrl_fetch ==
    /\ pc = "upload" /\ handler = "handleUploadFromUrl"
    /\ UNCHANGED <<request, handler, local>>
    /\ \/ /\ calls' = SetLast(calls, "failed")
          /\ UNCHANGED upstream
          /\ Return(UploadFailed(corsHeaders, "fetch() rejected"))
       \/ \E s \in Statuses, t \in UpstreamTexts :
            /\ calls' = SetLast(calls, "responded")
            /\ upstream' = [status |-> s, text |-> t, read |-> "none"]
            /\ IF ~ok(s)
               THEN Return(UploadFailed(corsHeaders,
                                        <<"Upload failed with status", s>>))
               ELSE Await("text")

\* await response.text() settles; the handler maps the result.
handleUploadFromUrl_text ==
    /\ pc = "text" /\ handler = "handleUploadFromUrl"
    /\ UNCHANGED <<request, handler, local>>
    /\ \/ /\ calls' = SetLast(calls, "failed")
          /\ upstream' = [upstream EXCEPT !.read = "failed"]
          /\ Return(UploadFailed(corsHeaders, "text() rejected"))
       \/ LET result == upstream.text IN
          /\ calls' = SetLast(calls, "read")
          /\ upstream' = [upstream EXCEPT !.read = "read"]
          /\ IF startsWith(result, HttpsPrefix)
             THEN Return(Response(200, corsHeaders,
                      [success |-> TRUE, url |-> trim(result),
                       original_url |-> local.url,
                       filename |-> local.filename,
                       size_mb |-> toFixed2(local.file)]
                      @@ (IF Truthy(local.temporary)
                          THEN [expiration |-> local.time, temporary |-> TRUE]
                          ELSE <<>>)))
             ELSE Return(UploadFailed(corsHeaders,
                                      "Invalid response from catbox"))

----------------------------------------------------------------------------
Next ==
    \/ fetch
    \/ handleUpload_formData
    \/ handleUpload_fetch
    \/ handleUpload_text
    \/ handleUploadTemp_formData
    \/ handleUploadTemp_fetch
    \/ handleUploadTemp_text
    \/ handleUploadFromUrl_json
    \/ handleUploadFromUrl_source
    \/ handleUploadFromUrl_blob
    \/ handleUploadFromUrl_fetch
    \/ handleUploadFromUrl_text

Spec == Init /\ [][Next]_vars

----------------------------------------------------------------------------
(* Vocabulary of the properties.                                            *)

Done == pc = "done"
Posted(path) == request.method = "POST" /\ request.path = path
UploadCalls == {i \in DOMAIN calls : calls[i].op = "upload"}
InFlight(i) == calls[i].state \in {"pending", "responded"}
Has(r, k) == k \in DOMAIN r.body

\* The first eight characters are h t t p s : / /
BeginsWithHttps(s) ==
    /\ Len(s) >= 8
    /\ \A i \in 1..8 : s[i] = HttpsPrefix[i]

\* status 200, success:true
Success(r) == r.status = 200 /\ Has(r, "success") /\ r.body.success = TRUE

\* status 500, success:false and a message
Failure(r) ==
    /\ r.status = 500
    /\ Has(r, "success") /\ r.body.success = FALSE
    /\ Has(r, "message")

\* The upload call of the request, when there is one, is the last call.
LastIsUpload == calls # <<>> /\ calls[Len(calls)].op = "upload"

\* The upstream upload call returned a response, with its status.
UpstreamReturned ==
    LastIsUpload /\ calls[Len(calls)].state \in {"responded", "read"}

\* ... and its body was delivered.
UpstreamBodyReturned == LastIsUpload /\ calls[Len(calls)].state = "read"

\* The request is a form whose time field is present and not one of the
\* four values.
TimeFieldOutside ==
    /\ request.body.kind = "form"
    /\ request.body.time # Null
    /\ ~(request.body.time.type = "string" /\ request.body.time.v \in validTimes)

\* The request carries a file part larger than 200 MiB.
FormFileOversize ==
    /\ request.body.kind = "form"
    /\ request.body.file.type = "file"
    /\ request.body.file.size > 200 * 1024 * 1024

\* The body fetched from the source URL is larger than 200 MiB.
FetchedOversize ==
    /\ local.file.type = "file"
    /\ local.file.size > 200 * 1024 * 1024

OversizeUpload ==
    \/ Posted("/upload") /\ FormFileOversize
    \/ Posted("/upload/temp") /\ FormFileOversize
    \/ Posted("/upload/url") /\ FetchedOversize

----------------------------------------------------------------------------
(* C1.  As stated: a POST to /upload/temp whose time field is outside       *)
(* {1h,12h,24h,72h} is answered 400 and issues no call to the temporary     *)
(* upstream.  An empty time field is outside the set, yet it is replaced    *)
(* by the default 1h and the upload goes ahead.                             *)
C1_AnyInvalidTimeRejected ==
    (Posted("/upload/temp") /\ TimeFieldOutside) =>
        /\ \A i \in DOMAIN calls : calls[i].url # Litterbox
        /\ (Done => response.status = 400)

\* C1, amended: a POST to /upload/temp whose time field is not empty and is
\* outside {1h,12h,24h,72h} is answered 400 and issues no call to the
\* temporary upstream, whatever the file's presence or size.
C1_NonEmptyInvalidTimeRejected ==
    (Posted("/upload/temp") /\ TimeFieldOutside /\ request.body.time # Str("")) =>
        /\ \A i \in DOMAIN calls : calls[i].url # Litterbox
        /\ pc \in {"idle", "formData", "done"}
        /\ (Done => response.status = 400)

C1_Witness ==
    /\ Done /\ Posted("/upload/temp")
    /\ request.body.kind = "form"
    /\ request.body.time = Str("5h")
    /\ request.body.file = File("a.png", 5 * BytesPerMB)
    /\ response.status = 400
    /\ Has(response, "provided")

\* C2.  No upload call is issued for a file whose size exceeds 200 MiB: the
\* file of every upload call in flight or finished is at most 200 MiB.
C2_NoOversizeUploadCall ==
    \A i \in UploadCalls :
        calls[i].file.type = "file" => calls[i].file.size <= 200 * 1024 * 1024

C2_Witness ==
    /\ pc = "upload"
    /\ LastIsUpload
    /\ calls[Len(calls)].file.type = "file"
    /\ calls[Len(calls)].file.size = 200 * 1024 * 1024

\* C3.  As stated: every upload request whose file is larger than 200 MiB is
\* answered 413, regardless of its other parameters.  On /upload/temp the
\* time field is validated first and an unrecognized value is answered 400.
C3_OversizeAlways413 ==
    (Done /\ OversizeUpload) => response.status = 413

\* C3, amended: every upload request whose file is larger than 200 MiB is
\* answered 413, provided that on /upload/temp the time field is absent, empty
\* or one of the four values; with any other time value the answer is 400.
C3_Oversize413UnlessTimeRejected ==
    (Done /\ OversizeUpload) =>
        IF Posted("/upload/temp") /\ TimeFieldOutside /\ request.body.time # Str("")
        THEN response.status = 400
        ELSE response.status = 413 /\ UploadCalls = {}

C3_Witness ==
    /\ Done /\ Posted("/upload/temp") /\ FormFileOversize
    /\ request.body.time = Str("24h")
    /\ response.status = 413

\* C4.  A POST to /upload/url whose url value does not parse as a URL is
\* answered 400 and issues no network call, neither the source GET nor an
\* upload.
C4_UnparsableUrlRejected ==
    (Posted("/upload/url") /\ request.body.kind = "json"
        /\ request.body.url.type \in {"string", "number"}
        /\ request.body.url.v \notin {"https://h/a.png", "https://h/d/", "ftp://h/f"}) =>
        /\ calls = <<>>
        /\ pc \in {"idle", "json", "done"}
        /\ (Done => response.status = 400)

C4_Witness ==
    /\ Done /\ Posted("/upload/url")
    /\ request.body.kind = "json"
    /\ request.body.url = Str("not a url")
    /\ response.status = 400
    /\ calls = <<>>

\* C5.  A handler returns a success envelope exactly when the upstream upload
\* call returned a 2xx status and a body beginning with https://; the
\* envelope's url is that body with the white space at its ends removed, and
\* begins with https://.  When the upstream returns another status, or a body
\* that does not begin with https://, the response is 500 with success:false
\* and a message.
C5_SuccessIffUpstreamUrl ==
    Done =>
        /\ Success(response) <=>
             /\ UpstreamBodyReturned
             /\ upstream.status \in 200..299
             /\ BeginsWithHttps(upstream.text)
        /\ Success(response) =>
             /\ BeginsWithHttps(response.body.url)
             /\ \E a, b \in 0..Len(upstream.text) :
                  /\ a + Len(response.body.url) + b = Len(upstream.text)
                  /\ \A i \in 1..a : upstream.text[i] \in WhiteSpace
                  /\ \A i \in 1..b :
                       upstream.text[Len(upstream.text) + 1 - i] \in WhiteSpace
                  /\ response.body.url
                       = SubSeq(upstream.text, a + 1, Len(upstream.text) - b)
             /\ response.body.url[Len(response.body.url)] \notin WhiteSpace
        /\ (UpstreamReturned /\ upstream.status \notin 200..299) =>
             Failure(response)
        /\ (UpstreamBodyReturned /\ ~BeginsWithHttps(upstream.text)) =>
             Failure(response)

C5_Witness ==
    /\ Done /\ Success(response)
    /\ UpstreamBodyReturned
    /\ upstream.status = 299
    /\ response.body.url # upstream.text

\* C6.  A request issues at most one upload call and at most two outbound
\* calls; the source fetch, when there is one, comes first and its body has
\* been read before the upload is started, so no two calls are in flight
\* together; a response decided by a validation gate (400, 404, 405, 413)
\* or by the preflight leaves no upload call behind and none in flight.
C6_SequentialCalls ==
    /\ Cardinality(UploadCalls) <= 1
    /\ Len(calls) <= 2
    /\ \A i, j \in DOMAIN calls : (InFlight(i) /\ InFlight(j)) => i = j
    /\ \A j \in UploadCalls :
         \A i \in DOMAIN calls :
            calls[i].op = "source" => (i < j /\ calls[i].state = "read")
    /\ \A i \in DOMAIN calls : i < Len(calls) => calls[i].op = "source"
    /\ (Done /\ response.status \in {400, 404, 405, 413}) =>
         UploadCalls = {}
    /\ (Done /\ request.method = "OPTIONS") => calls = <<>>
    /\ Done => \A i \in DOMAIN calls : calls[i].state # "pending"

C6_Witness ==
    /\ pc = "upload"
    /\ Len(calls) = 2
    /\ calls[1].op = "source" /\ calls[1].state = "read"
    /\ calls[2].op = "upload" /\ calls[2].state = "pending"

\* C7.  /upload calls the permanent upstream, /upload/temp the temporary
\* one, /upload/url the temporary one exactly when the request's temporary
\* member is set (truthy); a success envelope carries temporary:true and
\* expiration exactly when the temporary upstream was the one called.
C7_UpstreamByRouteAndFlag ==
    /\ \A i \in UploadCalls :
         /\ calls[i].url \in {Catbox, Litterbox}
         /\ request.path = "/upload" => calls[i].url = Catbox
         /\ request.path = "/upload/temp" => calls[i].url = Litterbox
         /\ request.path = "/upload/url" =>
              (calls[i].url = Litterbox <=>
                  \/ request.body.temporary = Bool("true")
                  \/ request.body.temporary.type = "string"
                        /\ request.body.temporary.v # ""
                  \/ request.body.temporary.type = "number"
                        /\ request.body.temporary.v \notin {"0", "NaN"})
         /\ (calls[i].time # Undefined) <=> (calls[i].url = Litterbox)
    /\ (Done /\ Success(response)) =>
         /\ Has(response, "temporary") <=> calls[Len(calls)].url = Litterbox
         /\ Has(response, "expiration") <=> calls[Len(calls)].url = Litterbox
         /\ Has(response, "temporary") => response.body.temporary = TRUE

C7_Witness ==
    /\ Done /\ Success(response)
    /\ request.path = "/upload/url"
    /\ request.body.temporary = Bool("true")
    /\ calls[Len(calls)].url = Litterbox
    /\ Has(response, "temporary") /\ Has(response, "expiration")

\* C8.  An OPTIONS request on any path is answered 200 with an empty body and
\* the three CORS headers, without a handler being dispatched and without an
\* outbound call.
C8_Preflight ==
    request.method = "OPTIONS" =>
        /\ pc \in {"idle", "done"}
        /\ handler = "none"
        /\ calls = <<>>
        /\ Done =>
             /\ response.status = 200
             /\ response.body = Null
             /\ {"ACAO", "ACAM", "ACAH"} \subseteq DOMAIN response.headers
             /\ response.headers.ACAO = "*"
             /\ response.headers.ACAM = "GET, POST, OPTIONS"
             /\ response.headers.ACAH = "Content-Type"

C8_Witness ==
    /\ Done
    /\ request.method = "OPTIONS"
    /\ request.path = "/upload/temp"
    /\ response.status = 200

\* C9.  Every response, on every path, method and branch, carries
\* Content-Type: application/json and Access-Control-Allow-Origin: *.
C9_JsonAndCorsHeaders ==
    Done =>
        /\ response.status \in {200, 400, 404, 405, 413, 500}
        /\ {"ContentType", "ACAO"} \subseteq DOMAIN response.headers
        /\ response.headers.ContentType = "application/json"
        /\ response.headers.ACAO = "*"

C9_Witness ==
    /\ Done
    /\ response.status = 413
    /\ request.path = "/upload/url"
    /\ response.headers.ContentType = "application/json"

\* C10.  Every call to the temporary upstream carries a time field that is
\* one of 1h, 12h, 24h, 72h, and every success envelope's expiration is one of
\* the four.  /upload/url forwards the time member of the body unvalidated.
C10_TemporaryTimeValid ==
    /\ \A i \in UploadCalls :
         calls[i].url = Litterbox =>
            (calls[i].time.type = "string" /\ calls[i].time.v \in validTimes)
    /\ (Done /\ Success(response) /\ Has(response, "expiration")) =>
         /\ response.body.expiration.type = "string"
         /\ response.body.expiration.v \in validTimes

====
